---- MODULE Spec2Model ----
(***************************************************************************)
(* HumanEval-X evaluation harness (codegeex/benchmark/humaneval-x).        *)
(*                                                                         *)
(* Spec      the orchestrator evaluate_functional_correctness: the submit  *)
(*           loop, the worker pool, the collection of the futures and the  *)
(*           pass@k report. The requested k list and the verdict of an     *)
(*           invocation enter the state where the code first reads them.   *)
(* SpecExec  the sandboxed executor check_correctness, one child process   *)
(*           per invocation, several invocations running concurrently.     *)
(* SpecEst   the per-task pass@k estimator as a pure function.             *)
(* SpecPath  the translation target _extract_translation_target reads from *)
(*           the path of the samples file, and the rewriting of a sample.  *)
(* SpecAsm   the assembler process_humaneval_test as a pure function of    *)
(*           the sample, the problem set and the example_test flag; a text *)
(*           is a sequence of characters or of longer pieces of text.      *)
(* SpecLang  the language key _lang_from_problem_file reads from the path  *)
(*           of the problem file for the summary line.                     *)
(***************************************************************************)
EXTENDS Integers, Sequences, FiniteSets, TLC

\* ------------------------------------------------------------------------
\* Bounds of the model
\* ------------------------------------------------------------------------
MaxSamples == 3
MaxIndex == 1
MaxN == 6
NInv == 2
n_workers == 2
MaxCodeLen == 4
MaxDeclLines == 2

\* ------------------------------------------------------------------------
\* Program constants
\* ------------------------------------------------------------------------

None == "None"
NoId == -1
Blank == -1
EmptyStr == <<>>
NoTotals == <<>>
NoEstimate == <<>>

LANGUAGE_NAME ==
  [l \in {"cpp", "go", "java", "js", "python", "rust"} |->
     CASE l = "cpp" -> "CPP"
       [] l = "go" -> "Go"
       [] l = "java" -> "Java"
       [] l = "js" -> "JavaScript"
       [] l = "python" -> "Python"
       [] l = "rust" -> "Rust"]

\* str.lower() on the language segment of a task id
Lower(name) ==
  CASE name = "CPP" -> "cpp"
    [] name = "Go" -> "go"
    [] name = "Java" -> "java"
    [] name = "JavaScript" -> "javascript"
    [] name = "Python" -> "python"
    [] name = "Rust" -> "rust"
    [] OTHER -> name

\* a task id "<LanguageName>/<index>"
TaskId(name, idx) == [lang |-> name, idx |-> idx]

\* the language names that occur in the modelled inputs
ModelNames == {"Python", "JavaScript"}

TaskIds == [lang : ModelNames, idx : 0..MaxIndex]

\* the problem files the run may load (read_dataset): sets of task ids
ProblemFiles ==
  { {TaskId("JavaScript", 0), TaskId("JavaScript", 1)},
    {TaskId("Python", 0), TaskId("Python", 1), TaskId("JavaScript", 0)} }

\* the values the requested k list may take
KChoices == { <<2>>, <<1, 2>> }

\* the completion_id values a sample of the input may carry
ExplicitIds == {0}

\* ------------------------------------------------------------------------
\* Text: a Python str is a sequence of one-character strings
\* ------------------------------------------------------------------------
UpperCase == <<"A", "B", "C", "D", "E", "F", "G", "H", "I", "J", "K", "L", "M",
               "N", "O", "P", "Q", "R", "S", "T", "U", "V", "W", "X", "Y", "Z">>
LowerCase == <<"a", "b", "c", "d", "e", "f", "g", "h", "i", "j", "k", "l", "m",
               "n", "o", "p", "q", "r", "s", "t", "u", "v", "w", "x", "y", "z">>

\* str.lower()
lower(s) ==
  [i \in DOMAIN s |->
     IF \E j \in DOMAIN UpperCase : UpperCase[j] = s[i]
       THEN LowerCase[CHOOSE j \in DOMAIN UpperCase : UpperCase[j] = s[i]]
       ELSE s[i]]

\* the places where `sub` occurs in `s`, and `sub in s`
Occurrences(sub, s) ==
  {i \in 1..(Len(s) - Len(sub) + 1) : SubSeq(s, i, i + Len(sub) - 1) = sub}

Contains(s, sub) == Occurrences(sub, s) # {}

\* the spelling of the language tokens the code names
Spell(w) ==
  CASE w = "javascript" -> <<"j", "a", "v", "a", "s", "c", "r", "i", "p", "t">>
    [] w = "js" -> <<"j", "s">>
    [] w = "python" -> <<"p", "y", "t", "h", "o", "n">>
    [] w = "py" -> <<"p", "y">>
    [] w = "c++" -> <<"c", "+", "+">>
    [] w = "cplusplus" -> <<"c", "p", "l", "u", "s", "p", "l", "u", "s">>
    [] w = "cpp" -> <<"c", "p", "p">>
    [] w = "go" -> <<"g", "o">>
    [] w = "java" -> <<"j", "a", "v", "a">>
    [] w = "rust" -> <<"r", "u", "s", "t">>

\* ------------------------------------------------------------------------
\* Translation target of the input path: _extract_translation_target
\* ------------------------------------------------------------------------
\* the normalization map (lines 84-95)
alias ==
  [w \in {"javascript", "js", "python", "py", "c++", "cplusplus", "cpp", "go", "java", "rust"} |->
     CASE w = "javascript" -> "js"
       [] w = "js" -> "js"
       [] w = "python" -> "python"
       [] w = "py" -> "python"
       [] w = "c++" -> "cpp"
       [] w = "cplusplus" -> "cpp"
       [] w = "cpp" -> "cpp"
       [] w = "go" -> "go"
       [] w = "java" -> "java"
       [] w = "rust" -> "rust"]

\* the candidates of the substring fallback, in the order they are tried
\* (lines 100-101)
Candidates == <<"cpp", "c++", "cplusplus", "go", "java", "javascript", "js", "python", "py", "rust">>

\* the first place where [-_]to[-_]([a-z\+]+) matches, or 0 (line 79)
InGroup(c) == c = "+" \/ \E j \in DOMAIN LowerCase : LowerCase[j] = c

MatchAt(s, i) ==
  /\ i + 4 <= Len(s)
  /\ s[i] \in {"-", "_"}
  /\ s[i + 1] = "t" /\ s[i + 2] = "o"
  /\ s[i + 3] \in {"-", "_"}
  /\ InGroup(s[i + 4])

Search(s) ==
  LET M == {i \in DOMAIN s : MatchAt(s, i)}
  IN IF M = {} THEN 0 ELSE CHOOSE i \in M : \A j \in M : i <= j

\* m.group(1): the longest run of [a-z\+] from the place after the separator
Group1(s, m) ==
  LET E == {e \in (m + 4)..Len(s) : \A j \in (m + 4)..e : InGroup(s[j])}
  IN SubSeq(s, m + 4, CHOOSE e \in E : \A f \in E : f <= e)

\* alias.get(cand, cand)  (line 102)
alias_get_raw(cand) == cand

alias_get(cand) == IF cand \in DOMAIN alias THEN alias[cand] ELSE cand

extract_translation_target(path) ==
  LET s == lower(path)
      m == Search(s)
  IN IF m = 0 THEN None
     ELSE LET raw == Group1(s, m)
              direct == {w \in DOMAIN alias : Spell(w) = raw}
              found == {i \in DOMAIN Candidates : Contains(raw, Spell(Candidates[i]))}
          IN IF direct # {} THEN alias[CHOOSE w \in direct : TRUE]
             ELSE IF found # {}
               THEN alias_get(Candidates[CHOOSE i \in found : \A j \in found : i <= j])
               ELSE None

\* the language keys in the order the dict LANGUAGE_NAME holds them
LanguageKeys == <<"cpp", "go", "java", "js", "python", "rust">>

\* the safety net of lines 297-301: a target that is no key of LANGUAGE_NAME
\* is replaced by the first key that occurs in it
SafeLang(lang) ==
  IF lang \in DOMAIN LANGUAGE_NAME THEN lang
  ELSE LET found == {i \in DOMAIN LanguageKeys :
                       Contains(Spell(lang), Spell(LanguageKeys[i]))}
       IN IF found # {}
            THEN LanguageKeys[CHOOSE i \in found : \A j \in found : i <= j]
            ELSE lang

\* the input paths of the modelled runs
RunInputFiles == {<<"s", "a", "m", "p", "l", "e", "s", ".", "j", "s", "o", "n", "l">>,
                  <<"p", "y", "-", "t", "o", "-", "j", "s", ".", "j", "s", "o", "n", "l">>}

\* the translation targets the input path may carry
TargetChoices == {extract_translation_target(f) : f \in RunInputFiles}

\* the k whose value the summary line prints
SummaryKs == {1, 10, 100}

\* ------------------------------------------------------------------------
\* Exact rationals <<numerator, denominator>>, kept in lowest terms
\* ------------------------------------------------------------------------
RECURSIVE Gcd(_, _)
Gcd(a, b) == IF b = 0 THEN a ELSE Gcd(b, a % b)

Norm(r) ==
  LET g == Gcd(r[1], r[2]) IN
    IF g = 0 THEN r ELSE <<r[1] \div g, r[2] \div g>>

RatAdd(a, b) == Norm(<<a[1] * b[2] + b[1] * a[2], a[2] * b[2]>>)

RatEq(a, b) == a[1] * b[2] = b[1] * a[2]

RECURSIVE RatSum(_, _)
RatSum(f, S) ==
  IF S = {} THEN <<0, 1>>
  ELSE LET x == CHOOSE y \in S : TRUE IN RatAdd(f[x], RatSum(f, S \ {x}))

RECURSIVE NatSum(_, _)
NatSum(f, S) ==
  IF S = {} THEN 0
  ELSE LET x == CHOOSE y \in S : TRUE IN f[x] + NatSum(f, S \ {x})

SeqToSet(s) == {s[i] : i \in 1..Len(s)}

\* ------------------------------------------------------------------------
\* Score estimator (codegeex.benchmark.metric)
\* ------------------------------------------------------------------------
\* PROD_{i = lo..hi} (1 - k/i) as a fraction
RECURSIVE ProdForm(_, _, _)
ProdForm(lo, hi, k) ==
  IF lo > hi THEN <<1, 1>>
  ELSE LET r == ProdForm(lo + 1, hi, k) IN Norm(<<(lo - k) * r[1], lo * r[2]>>)

estimator_short(n, c, k) ==
  LET p == ProdForm(n - c + 1, n - 1, k) IN Norm(<<p[2] - p[1], p[2]>>)

\* the per-task estimate for n samples of which c pass
estimator(n, c, k) ==
  IF n - c < k THEN <<1, 1>>
  ELSE LET p == ProdForm(n - c + 1, n, k) IN Norm(<<p[2] - p[1], p[2]>>)

\* estimate_pass_at_k(total, correct, k).mean() over the tasks of T
MeanEstimate(total, correct, T, k) ==
  LET e == [t \in T |-> estimator(total[t], correct[t], k)]
      s == RatSum(e, T)
  IN Norm(<<s[1], s[2] * Cardinality(T)>>)

\* fmt(v): the value with six decimals, in millionths
fmt(v) ==
  IF v = EmptyStr THEN Blank
  ELSE (2 * v[1] * 1000000 + v[2]) \div (2 * v[2])

\* ------------------------------------------------------------------------
\* State
\* ------------------------------------------------------------------------
VARIABLES
  pc,                  \* position of the orchestrating thread
  problems,            \* the loaded problem set (its task ids)
  test_groundtruth,    \* the ground-truth flag
  tgt_lang,            \* translation target of the input path, or None
  ks,                  \* the requested k values, once the report reads them
  completion_id,       \* Counter: task id -> samples seen
  n_samples,
  futures,             \* the submitted invocations, in submission order
  collected,           \* futures whose result as_completed has yielded
  results,             \* Score Table: task id -> list of results
  evaluate_pass_at_k,
  pass_at_k,           \* k -> reported estimate
  totals,              \* the raw totals printed, or None
  csv_vals,            \* the pass@1/10/100 fields of the summary line
  explicit_ids,        \* some sample read so far carried a completion_id
  modified,            \* the Problem records written to since loading
  inv,                 \* SpecExec: the executor invocations
  est_in,              \* SpecEst: the input <<n, c, k>>
  est_out,             \* SpecEst: the estimate, or NoEstimate
  input_file,          \* SpecPath: the path of the samples file
  sample_task_id,         \* SpecPath: the task id a sample of the file carries
  resolved,            \* SpecPath: what lines 261-304 derive, once they ran
  asm_in,              \* SpecAsm: the arguments of a call of the assembler
  asm_out,             \* SpecAsm: what the call gives, once it ran
  problem_file,        \* SpecLang: the path of the problem file
  lang_key             \* SpecLang: the language field of the summary line

varsRun == <<pc, problems, test_groundtruth, tgt_lang, ks, completion_id,
             n_samples, futures, collected, results, evaluate_pass_at_k,
             pass_at_k, totals, csv_vals, explicit_ids, modified>>
varsExec == <<inv>>
varsEst == <<est_in, est_out>>
varsPath == <<input_file, sample_task_id, resolved>>
varsAsm == <<asm_in, asm_out>>
varsLang == <<problem_file, lang_key>>
vars == <<varsRun, varsExec, varsEst, varsPath, varsAsm, varsLang>>

\* what the actions of one specification leave alone
notRun == <<varsExec, varsEst, varsPath, varsAsm, varsLang>>
notExec == <<varsRun, varsEst, varsPath, varsAsm, varsLang>>
notEst == <<varsRun, varsExec, varsPath, varsAsm, varsLang>>
notPath == <<varsRun, varsExec, varsEst, varsAsm, varsLang>>
notAsm == <<varsRun, varsExec, varsEst, varsPath, varsLang>>
notLang == <<varsRun, varsExec, varsEst, varsPath, varsAsm>>

translation_mode == tgt_lang # None

\* keys of the Counter: a key exists once it has been incremented
CounterKeys == {t \in DOMAIN completion_id : completion_id[t] > 0}

\* the states of the other two specifications while one of them runs
IdleRun ==
  /\ pc = "idle"
  /\ problems = {}
  /\ test_groundtruth = FALSE
  /\ tgt_lang = None
  /\ ks = <<>>
  /\ completion_id = [t \in TaskIds |-> 0]
  /\ n_samples = 0
  /\ futures = <<>>
  /\ collected = {}
  /\ results = [t \in TaskIds |-> <<>>]
  /\ evaluate_pass_at_k = FALSE
  /\ pass_at_k = <<>>
  /\ totals = NoTotals
  /\ csv_vals = [kk \in SummaryKs |-> Blank]
  /\ explicit_ids = FALSE
  /\ modified = {}

IdleExec == inv = <<>>

IdleEst == est_in = <<0, 0, 0>> /\ est_out = NoEstimate

IdlePath ==
  input_file = <<>> /\ sample_task_id = TaskId("Python", 0) /\ resolved = <<>>

IdleAsm == asm_in = <<>> /\ asm_out = <<>>

IdleLang == problem_file = <<>> /\ lang_key = <<>>

\* ------------------------------------------------------------------------
\* Orchestrator: evaluate_functional_correctness
\* ------------------------------------------------------------------------
Init ==
  /\ pc = "submit"
  /\ problems \in ProblemFiles
  /\ test_groundtruth \in BOOLEAN
  /\ tgt_lang \in TargetChoices
  /\ ks = <<>>
  /\ completion_id = [t \in TaskIds |-> 0]
  /\ n_samples = 0
  /\ futures = <<>>
  /\ collected = {}
  /\ results = [t \in TaskIds |-> <<>>]
  /\ evaluate_pass_at_k = FALSE
  /\ pass_at_k = <<>>
  /\ totals = NoTotals
  /\ csv_vals = [kk \in SummaryKs |-> Blank]
  /\ explicit_ids = FALSE
  /\ modified = {}
  /\ IdleExec
  /\ IdleEst
  /\ IdlePath
  /\ IdleAsm
  /\ IdleLang

\* the language key the orchestrator derives for a sample (lines 292-304)
SampleLangFor(tgt, task_id) ==
  LET lang == IF tgt # None THEN SafeLang(tgt) ELSE Lower(task_id.lang)
  IN IF lang = "javascript" THEN "js" ELSE lang

SampleLang(task_id) == SampleLangFor(tgt_lang, task_id)

\* the task id under which a sample is submitted (lines 291-306)
SampleTaskIdFor(tgt, task_id) ==
  IF tgt # None
    THEN TaskId(LANGUAGE_NAME[SafeLang(tgt)], task_id.idx)
    ELSE task_id

SampleTaskId(task_id) == SampleTaskIdFor(tgt_lang, task_id)

\* os.path.join(tmp_dir, lang, "evaluation")
tmp_dir_(lang) == <<"tmp_dir", lang, "evaluation">>

\* the completion id given to a sample
AssignedId_global(sample_cid, task_id) ==
  IF sample_cid # NoId THEN sample_cid ELSE n_samples

AssignedId(sample_cid, task_id) ==
  IF sample_cid # NoId THEN sample_cid ELSE completion_id[task_id]

\* the arguments of one executor.submit(check_correctness, ...) and the state
\* of its future; generation: the field the submitted code was taken from;
\* verdict: the passed flag of its result, once it is done
Future(task_id, lang, cid, generation) ==
  [task_id |-> task_id, lang |-> lang, tmp_dir |-> tmp_dir_(lang),
   completion_id |-> cid, generation |-> generation,
   verdict |-> FALSE, state |-> "pending"]

\* one iteration of the loop over the input samples (lines 290-321)
SubmitSample(sample_task, sample_cid) ==
  /\ pc = "submit"
  /\ ~test_groundtruth
  /\ Len(futures) < MaxSamples
  /\ LET task_id == SampleTaskId(sample_task)
         lang == SampleLang(sample_task)
     IN IF task_id \notin problems
          THEN \* process_humaneval_test raises KeyError
               /\ pc' = "aborted"
               /\ UNCHANGED <<completion_id, n_samples, futures, explicit_ids>>
          ELSE /\ futures' = Append(futures,
                     Future(task_id, lang, AssignedId(sample_cid, task_id),
                            "generation"))
               /\ explicit_ids' = (explicit_ids \/ sample_cid # NoId)
               /\ completion_id' = [completion_id EXCEPT ![task_id] = @ + 1]
               /\ n_samples' = n_samples + 1
               /\ pc' = pc
  /\ UNCHANGED <<problems, test_groundtruth, tgt_lang, ks, collected, results,
                 evaluate_pass_at_k, pass_at_k, totals, csv_vals, modified>>
  /\ UNCHANGED notRun

\* the problems the ground-truth loop has not reached yet
GroundTruthTodo == {p \in problems : completion_id[p] = 0}

\* the completion id given to a canonical solution (line 284)
GroundTruthId_count(task_id) == n_samples

GroundTruthId(task_id) == completion_id[task_id]

\* one iteration of the loop over problems.values() (lines 273-287); the
\* record `sample` is the Problem record itself, and lines 279-280 store the
\* generation and the test code in it
SubmitGroundTruth(task_id) ==
  /\ pc = "submit"
  /\ test_groundtruth
  /\ task_id \in GroundTruthTodo
  /\ LET l == Lower(task_id.lang)
         lang == IF l = "javascript" THEN "js" ELSE l
     IN futures' = Append(futures,
            Future(task_id, lang, GroundTruthId(task_id), "canonical_solution"))
  /\ modified' = modified \cup {task_id}
  /\ completion_id' = [completion_id EXCEPT ![task_id] = @ + 1]
  /\ n_samples' = n_samples + 1
  /\ UNCHANGED <<pc, problems, test_groundtruth, tgt_lang, ks, collected, results,
                 evaluate_pass_at_k, pass_at_k, totals, csv_vals, explicit_ids>>
  /\ UNCHANGED notRun

\* the eligibility test (line 324)
Eligible_bySamples == n_samples >= Cardinality(problems)

Eligible == Cardinality(CounterKeys) = Cardinality(problems)

\* the end of the input: the eligibility decision (lines 323-329)
EndSubmit ==
  /\ pc = "submit"
  /\ test_groundtruth => GroundTruthTodo = {}
  /\ evaluate_pass_at_k' = Eligible
  /\ pc' = "collect"
  /\ UNCHANGED <<problems, test_groundtruth, tgt_lang, ks, completion_id,
                 n_samples, futures, collected, results, pass_at_k, totals,
                 csv_vals, explicit_ids, modified>>
  /\ UNCHANGED notRun

Running == {i \in 1..Len(futures) : futures[i].state = "running"}

\* a pool thread takes the oldest pending work item
WorkerStart(i) ==
  /\ i \in 1..Len(futures)
  /\ futures[i].state = "pending"
  /\ \A j \in 1..(i - 1) : futures[j].state # "pending"
  /\ Cardinality(Running) < n_workers
  /\ futures' = [futures EXCEPT ![i].state = "running"]
  /\ UNCHANGED <<pc, problems, test_groundtruth, tgt_lang, ks, completion_id,
                 n_samples, collected, results, evaluate_pass_at_k, pass_at_k,
                 totals, csv_vals, explicit_ids, modified>>
  /\ UNCHANGED notRun

\* check_correctness returns: the future holds its result
WorkerFinish(i, passed) ==
  /\ i \in 1..Len(futures)
  /\ futures[i].state = "running"
  /\ futures' = [futures EXCEPT ![i].state = "done", ![i].verdict = passed]
  /\ UNCHANGED <<pc, problems, test_groundtruth, tgt_lang, ks, completion_id,
                 n_samples, collected, results, evaluate_pass_at_k, pass_at_k,
                 totals, csv_vals, explicit_ids, modified>>
  /\ UNCHANGED notRun

\* the Execution Result of a finished invocation
ResultOf(f) ==
  [task_id |-> f.task_id, completion_id |-> f.completion_id, passed |-> f.verdict]

\* the key under which a result is stored (line 332)
ResultKey_byLanguage(result) == TaskId(result.task_id.lang, 0)

ResultKey(result) == result.task_id

\* one iteration of the loop over as_completed(futures) (lines 330-332)
Collect(i) ==
  /\ pc = "collect"
  /\ i \in 1..Len(futures)
  /\ i \notin collected
  /\ futures[i].state = "done"
  /\ LET result == ResultOf(futures[i])
     IN results' = [results EXCEPT ![ResultKey(result)] =
                      Append(@, <<result.completion_id, result>>)]
  /\ collected' = collected \cup {i}
  /\ UNCHANGED <<pc, problems, test_groundtruth, tgt_lang, ks, completion_id,
                 n_samples, futures, evaluate_pass_at_k, pass_at_k, totals,
                 csv_vals, explicit_ids, modified>>
  /\ UNCHANGED notRun

\* results.values(): the tasks that hold at least one result
ScoredTasks == {t \in DOMAIN results : Len(results[t]) > 0}

\* the number of results of each scored task (line 336)
Total_lastId ==
  [t \in ScoredTasks |-> results[t][Len(results[t])][1] + 1]

Total == [t \in ScoredTasks |-> Len(results[t])]

Correct ==
  [t \in ScoredTasks |->
     Cardinality({j \in 1..Len(results[t]) : results[t][j][2].passed})]

\* (total >= kk).all()  (line 346)
KReported_any(kk) == \E t \in ScoredTasks : Total[t] >= kk

KReported(kk) == \A t \in ScoredTasks : Total[t] >= kk

\* the pass@k dictionary (lines 342-346)
PassAtK(k) ==
  IF evaluate_pass_at_k
    THEN [kk \in {x \in SeqToSet(k) : KReported(x)} |->
            MeanEstimate(Total, Correct, ScoredTasks, kk)]
    ELSE <<>>

\* the estimate, the totals and the summary line (lines 334-382)
Report(k) ==
  /\ pc = "collect"
  /\ collected = 1..Len(futures)
  /\ ks' = k
  /\ pass_at_k' = PassAtK(k)
  /\ totals' = IF evaluate_pass_at_k THEN NoTotals
               ELSE <<NatSum(Total, ScoredTasks), NatSum(Correct, ScoredTasks)>>
  /\ csv_vals' = [kk \in SummaryKs |->
                    fmt(IF kk \in DOMAIN PassAtK(k) THEN PassAtK(k)[kk] ELSE EmptyStr)]
  /\ pc' = "done"
  /\ UNCHANGED <<problems, test_groundtruth, tgt_lang, completion_id,
                 n_samples, futures, collected, results, evaluate_pass_at_k,
                 explicit_ids, modified>>
  /\ UNCHANGED notRun

Next ==
  \/ \E t \in TaskIds, c \in {NoId} \cup ExplicitIds : SubmitSample(t, c)
  \/ \E t \in TaskIds : SubmitGroundTruth(t)
  \/ EndSubmit
  \/ \E i \in 1..MaxSamples : WorkerStart(i)
  \/ \E i \in 1..MaxSamples, passed \in BOOLEAN : WorkerFinish(i, passed)
  \/ \E i \in 1..MaxSamples : Collect(i)
  \/ \E k \in KChoices : Report(k)

Spec == Init /\ [][Next]_vars

TypeOK ==
  /\ pc \in {"idle", "submit", "collect", "done", "aborted"}
  /\ n_samples = Len(futures)
  /\ collected \subseteq 1..Len(futures)

\* ------------------------------------------------------------------------
\* Sandbox of one invocation (codegeex.benchmark.execution)
\* ------------------------------------------------------------------------
\* the scratch subdirectory of an invocation: under the work directory it is
\* given, scoped by language and completion_id
SandboxPath(f) == <<f.tmp_dir, f.lang, f.completion_id>>

\* ------------------------------------------------------------------------
\* Properties of the orchestrator
\* ------------------------------------------------------------------------
Submitted == 1..Len(futures)

\* the futures submitted for a task, and those submitted before the i-th
OfTask(t) == {i \in Submitted : futures[i].task_id = t}
EarlierOfTask(i) == {j \in 1..(i - 1) : futures[j].task_id = futures[i].task_id}

AllCollected ==
  \/ pc = "done"
  \/ pc = "collect" /\ collected = Submitted

\* C1: within one run no two submitted invocations carry the same
\* (task_id, completion_id) pair, whatever the samples' explicit ids are.
C1_UniqueIdentity ==
  \A i, j \in Submitted :
    i # j => <<futures[i].task_id, futures[i].completion_id>>
             # <<futures[j].task_id, futures[j].completion_id>>

\* C2: when no sample carries an explicit completion_id, the i-th sample of a
\* task (in submission order) gets the id i-1, whatever samples of other tasks
\* come in between; and the counter changes only in a step of the submitting
\* thread that submits one more invocation, never in a worker's step.
C2_NoExplicit == ~explicit_ids

C2_Contiguous ==
  C2_NoExplicit =>
    \A i \in Submitted : futures[i].completion_id = Cardinality(EarlierOfTask(i))

C2_CounterOwner ==
  completion_id' # completion_id =>
    /\ pc = "submit"
    /\ Len(futures') = Len(futures) + 1
    /\ \A i \in Submitted : futures'[i] = futures[i]
    /\ \E t \in TaskIds :
         /\ futures'[Len(futures')].task_id = t
         /\ completion_id' = [completion_id EXCEPT ![t] = @ + 1]

C2_ContiguousIds == []C2_Contiguous /\ [][C2_CounterOwner]_vars

C2_Witness ==
  /\ Len(futures) = 3
  /\ C2_NoExplicit
  /\ futures[1].task_id = futures[3].task_id
  /\ futures[2].task_id # futures[1].task_id
  /\ futures[3].completion_id = 1
  /\ futures[1].state = "done"
  /\ futures[2].state = "running"

\* C3: once every future is collected, the results stored under a task are
\* exactly the results of the invocations submitted for that task: as many,
\* each under its own task id, with the same completion ids and verdicts.
ResultsOf(t) == {j \in 1..Len(results[t]) : TRUE}

C3_ResultCount ==
  AllCollected =>
    \A t \in TaskIds :
      /\ Len(results[t]) = Cardinality(OfTask(t))
      /\ \A j \in ResultsOf(t) : results[t][j][2].task_id = t
      /\ \A c \in (-1)..MaxSamples, b \in BOOLEAN :
           Cardinality({j \in ResultsOf(t) :
                          /\ results[t][j][1] = c
                          /\ results[t][j][2].completion_id = c
                          /\ results[t][j][2].passed = b})
           = Cardinality({i \in OfTask(t) :
                          /\ futures[i].completion_id = c
                          /\ futures[i].verdict = b})

C3_Witness ==
  /\ pc = "done"
  /\ translation_mode
  /\ \E t \in TaskIds : Len(results[t]) = 2
  /\ \E t \in TaskIds : Len(results[t]) = 1

\* C4: the run computes the pass@k estimates (one for each requested k that
\* the sample count of every task reaches, so always one for a requested
\* k = 1, which the summary line prints) iff every loaded problem received a
\* completed sample; otherwise it prints the raw totals (samples seen, samples
\* passed), computes no estimate and leaves the three pass@k fields blank.
Covered ==
  \A p \in problems : \E i \in Submitted :
    futures[i].task_id = p /\ futures[i].state = "done"

C4_Eligibility ==
  pc = "done" =>
    /\ evaluate_pass_at_k <=> Covered
    /\ Covered =>
         /\ totals = NoTotals
         /\ DOMAIN pass_at_k \subseteq SeqToSet(ks)
         /\ \A kk \in SeqToSet(ks) :
              (\A p \in problems : Cardinality(OfTask(p)) >= kk) =>
                 kk \in DOMAIN pass_at_k
         /\ 1 \in SeqToSet(ks) => 1 \in DOMAIN pass_at_k /\ csv_vals[1] # Blank
    /\ ~Covered =>
         /\ totals = <<Len(futures),
                       Cardinality({i \in Submitted : futures[i].verdict})>>
         /\ pass_at_k = <<>>
         /\ \A kk \in SummaryKs : csv_vals[kk] = Blank

C4_Witness ==
  /\ pc = "done"
  /\ Cardinality(problems) = 3
  /\ Cardinality({p \in problems : OfTask(p) # {}}) = 2
  /\ totals # NoTotals
  /\ totals[1] = 2

\* C5 as stated: for each requested k the reported pass@k is the mean of the
\* per-task estimates over the tasks with n >= k (tasks with n < k left out).
NOf(t) == Cardinality(OfTask(t))
COf(t) == Cardinality({i \in OfTask(t) : futures[i].verdict})

MeanOver(T, kk) ==
  LET e == [t \in T |-> estimator(NOf(t), COf(t), kk)]
      s == RatSum(e, T)
  IN <<s[1], s[2] * Cardinality(T)>>

C5_MeanOverEligibleTasks ==
  (pc = "done" /\ evaluate_pass_at_k) =>
    \A kk \in SeqToSet(ks) :
      LET E == {t \in problems : NOf(t) >= kk} IN
        E # {} => /\ kk \in DOMAIN pass_at_k
                  /\ RatEq(pass_at_k[kk], MeanOver(E, kk))

\* C5 amended: pass@k is reported for a requested k only if every task has
\* n >= k, and it is then the mean of the per-task estimates over all tasks;
\* if any task has n < k no value is reported for that k.
C5_MeanWhenAllTasksReachK ==
  (pc = "done" /\ evaluate_pass_at_k) =>
    /\ DOMAIN pass_at_k \subseteq SeqToSet(ks)
    /\ \A kk \in SeqToSet(ks) :
         /\ kk \in DOMAIN pass_at_k <=> \A t \in problems : NOf(t) >= kk
         /\ kk \in DOMAIN pass_at_k =>
              RatEq(pass_at_k[kk], MeanOver(problems, kk))

C5_Witness ==
  /\ pc = "done"
  /\ evaluate_pass_at_k
  /\ ks = <<1, 2>>
  /\ DOMAIN pass_at_k = {1}
  /\ \E t \in problems : NOf(t) = 2 /\ COf(t) = 1
  /\ \E t \in problems : NOf(t) = 1

C11_NoSampleAbortsBatch == pc # "aborted"

\* C12: a run that reaches its end has reported at least one pass@k value or
\* the raw totals, whatever k values were requested and however many samples
\* each task has.
C12_EstimateOrTotals ==
  pc = "done" => (DOMAIN pass_at_k # {} \/ totals # NoTotals)

\* C14: in every mode the Problem records stay as they were loaded: none is
\* written to by the orchestrator.
C14_ProblemsReadOnly == modified = {}

\* C15: the report is a function of the submitted invocations and their
\* verdicts alone: the scored tasks, the per-task counts (n, c), the
\* eligibility decision, the totals and every pass@k value are what the
\* futures determine, in whatever order the futures were collected.
SubmittedTasks == {t \in TaskIds : OfTask(t) # {}}

C17_GroundTruthMode ==
  test_groundtruth =>
    /\ \A i \in Submitted :
         /\ futures[i].task_id \in problems
         /\ futures[i].generation = "canonical_solution"
         /\ futures[i].completion_id = 0
    /\ \A p \in problems : Cardinality(OfTask(p)) <= 1
    /\ pc \in {"collect", "done"} =>
         /\ \A p \in problems : Cardinality(OfTask(p)) = 1
         /\ evaluate_pass_at_k

C17_Witness ==
  /\ test_groundtruth
  /\ pc = "done"
  /\ Cardinality(problems) = 3
  /\ Len(futures) = 3
  /\ 1 \in DOMAIN pass_at_k

\* ------------------------------------------------------------------------
\* Sandboxed executor: check_correctness (codegeex.benchmark.execution)
\* ------------------------------------------------------------------------
ExecLangs == {"cpp", "go", "java", "js", "python", "rust"}

\* the languages whose toolchain has a compile/build step before the run
Compiled(lang) == lang \in {"cpp", "rust", "java"}

NoExit == -1
Killed == -9
NoResult == [passed |-> FALSE, result |-> "none"]

\* what the toolchain does with one assembled unit: whether it compiles, how
\* its run ends and whether the run writes to standard output or error
Fates ==
  {f \in [compile_ok : BOOLEAN, run : {"exit0", "exit1", "hang"}, emits : BOOLEAN] :
     ~f.compile_ok => (f.run = "exit0" /\ ~f.emits)}

Invocation(lang, fate) ==
  [lang |-> lang, fate |-> fate, phase |-> "pending", child |-> "none",
   compile_exit |-> NoExit, run_exit |-> NoExit, emitted |-> FALSE,
   executed |-> FALSE, overlapped |-> FALSE, result |-> NoResult]

Invocations ==
  {Invocation(x[1], x[2]) :
     x \in {y \in ExecLangs \X Fates : ~y[2].compile_ok => Compiled(y[1])}}

InitExec ==
  /\ inv \in [1..NInv -> Invocations]
  /\ IdleRun
  /\ IdleEst
  /\ IdlePath
  /\ IdleAsm
  /\ IdleLang

\* the outcome classification of a run that ended
Classify_exitOnly(lang, exit, emitted) == exit = 0

Classify(lang, exit, emitted) ==
  IF lang = "js" THEN exit = 0 /\ ~emitted ELSE exit = 0

\* the phase after the compile step
AfterCompile_alwaysRun(exit) == "running"

AfterCompile(exit) == IF exit = 0 THEN "running" ELSE "done"

\* the children a timeout of invocation i terminates
KillSet_allChildren(i) == {j \in 1..NInv : inv[j].child = "alive"}

KillSet(i) == {i}

\* a worker enters check_correctness: the unit is written to the sandbox and
\* the first child process is started
Begin(i) ==
  /\ inv[i].phase = "pending"
  /\ inv' = [inv EXCEPT ![i] =
       IF Compiled(@.lang)
         THEN [@ EXCEPT !.phase = "compiling"]
         ELSE [@ EXCEPT !.phase = "running", !.child = "alive", !.executed = TRUE]]
  /\ UNCHANGED notExec

\* the compiler exits
CompileExit(i) ==
  /\ inv[i].phase = "compiling"
  /\ LET exit == IF inv[i].fate.compile_ok THEN 0 ELSE 1
         phase == AfterCompile(exit)
     IN inv' = [inv EXCEPT ![i] =
          IF phase = "running"
            THEN [@ EXCEPT !.compile_exit = exit, !.phase = "running",
                           !.child = "alive", !.executed = TRUE]
            ELSE [@ EXCEPT !.compile_exit = exit, !.phase = "done",
                           !.result = [passed |-> FALSE, result |-> "compile error"]]]
  /\ UNCHANGED notExec

\* the child of the run step ends by itself (or is found terminated)
RunExit(i) ==
  /\ inv[i].phase = "running"
  /\ inv[i].child = "killed" \/ inv[i].fate.run # "hang"
  /\ LET exit == CASE inv[i].child = "killed" -> Killed
                   [] inv[i].fate.run = "exit0" -> 0
                   [] OTHER -> 1
         emitted == inv[i].child # "killed" /\ inv[i].fate.emits
         passed == Classify(inv[i].lang, exit, emitted)
     IN inv' = [inv EXCEPT ![i] =
          [@ EXCEPT !.run_exit = exit, !.emitted = emitted, !.phase = "done",
                    !.child = IF @ = "killed" THEN "killed" ELSE "exited",
                    !.result = [passed |-> passed,
                                result |-> IF passed THEN "passed" ELSE "failed"]]]
  /\ UNCHANGED notExec

\* the timeout of invocation i expires while its child is still running
Timeout(i) ==
  /\ inv[i].phase = "running"
  /\ inv[i].child = "alive"
  /\ inv[i].fate.run = "hang"
  /\ inv' = [j \in 1..NInv |->
       IF j = i
         THEN [inv[j] EXCEPT !.child = "killed", !.run_exit = Killed,
                             !.phase = "done",
                             !.result = [passed |-> FALSE, result |-> "timed out"]]
         ELSE IF j \in KillSet(i)
           THEN [inv[j] EXCEPT !.child = "killed"]
           ELSE IF inv[j].phase = "running"
             THEN [inv[j] EXCEPT !.overlapped = TRUE]
             ELSE inv[j]]
  /\ UNCHANGED notExec

NextExec ==
  \/ \E i \in 1..NInv : Begin(i)
  \/ \E i \in 1..NInv : CompileExit(i)
  \/ \E i \in 1..NInv : RunExit(i)
  \/ \E i \in 1..NInv : Timeout(i)

SpecExec == InitExec /\ [][NextExec]_vars

\* C7: a finished JS invocation passed iff its run exited zero and wrote
\* nothing to standard output or standard error; a finished invocation of any
\* other language passed iff its run exited zero.
C7_OutcomeClassification ==
  \A i \in 1..NInv :
    inv[i].phase = "done" =>
      (inv[i].result.passed <=>
         IF inv[i].lang = "js"
           THEN inv[i].run_exit = 0 /\ ~inv[i].emitted
           ELSE inv[i].run_exit = 0)

C7_Witness ==
  \E i, j \in 1..NInv :
    /\ inv[i].lang = "js" /\ inv[i].phase = "done"
    /\ inv[i].run_exit = 0 /\ inv[i].emitted /\ ~inv[i].result.passed
    /\ inv[j].lang = "python" /\ inv[j].phase = "done"
    /\ inv[j].run_exit = 0 /\ inv[j].emitted /\ inv[j].result.passed

\* C8: in a compiled language the run step is entered only after the compile
\* step of the same invocation exited zero; a non-zero compiler exit ends the
\* invocation with passed = false and the compiler's diagnostic, and no child
\* is run.
C8_NoRunAfterFailedCompile ==
  \A i \in 1..NInv :
    Compiled(inv[i].lang) =>
      /\ (inv[i].executed \/ inv[i].phase = "running") => inv[i].compile_exit = 0
      /\ inv[i].compile_exit \notin {NoExit, 0} =>
           /\ inv[i].phase = "done"
           /\ inv[i].result = [passed |-> FALSE, result |-> "compile error"]
           /\ ~inv[i].executed
           /\ inv[i].child = "none"
           /\ inv[i].run_exit = NoExit

C8_Witness ==
  \E i, j \in 1..NInv :
    /\ inv[i].lang = "rust" /\ inv[i].compile_exit = 1 /\ inv[i].phase = "done"
    /\ inv[j].lang = "cpp" /\ inv[j].compile_exit = 0 /\ inv[j].executed
    /\ inv[j].phase = "done"

\* C9: a timeout terminates the child of its own invocation only and gives
\* that invocation passed = false with the timed-out diagnostic; every other
\* invocation ends with the result its own unit determines.
OwnResult(lang, fate) ==
  CASE Compiled(lang) /\ ~fate.compile_ok ->
         [passed |-> FALSE, result |-> "compile error"]
    [] fate.run = "hang" -> [passed |-> FALSE, result |-> "timed out"]
    [] fate.run = "exit1" -> [passed |-> FALSE, result |-> "failed"]
    [] lang = "js" /\ fate.emits -> [passed |-> FALSE, result |-> "failed"]
    [] OTHER -> [passed |-> TRUE, result |-> "passed"]

C9_TimeoutIsolation ==
  \A i \in 1..NInv :
    /\ inv[i].child = "killed" => inv[i].fate.run = "hang"
    /\ inv[i].phase = "done" => inv[i].result = OwnResult(inv[i].lang, inv[i].fate)
    /\ (inv[i].phase = "done" /\ inv[i].fate.run = "hang" /\ inv[i].executed) =>
         inv[i].result = [passed |-> FALSE, result |-> "timed out"]

C9_Witness ==
  \E i, j \in 1..NInv :
    /\ inv[i].phase = "done" /\ inv[i].result.result = "timed out"
    /\ inv[j].phase = "done" /\ inv[j].overlapped /\ inv[j].result.passed

\* ------------------------------------------------------------------------
\* The per-task estimate as a function of (n, c, k)
\* ------------------------------------------------------------------------
InitEst ==
  /\ est_in \in {x \in (1..MaxN) \X (0..MaxN) \X (1..MaxN) :
                   x[2] <= x[1] /\ x[3] <= x[1]}
  /\ est_out = NoEstimate
  /\ IdleRun
  /\ IdleExec
  /\ IdlePath
  /\ IdleAsm
  /\ IdleLang

Estimate ==
  /\ est_out = NoEstimate
  /\ est_out' = estimator(est_in[1], est_in[2], est_in[3])
  /\ UNCHANGED est_in
  /\ UNCHANGED notEst

NextEst == Estimate

SpecEst == InitEst /\ [][NextEst]_vars

RECURSIVE Binomial(_, _)
Binomial(n, k) ==
  IF k = 0 THEN 1
  ELSE IF k > n THEN 0
  ELSE Binomial(n - 1, k - 1) + Binomial(n - 1, k)

\* C6: for 0 <= c <= n and 1 <= k <= n the estimate equals
\* 1 - C(n-c, k) / C(n, k) when n - c >= k and is exactly 1 when n - c < k;
\* c = n gives 1 and c = 0 gives 0.
C6_ProductFormIsBinomialRatio ==
  est_out # NoEstimate =>
    LET n == est_in[1]
        c == est_in[2]
        k == est_in[3]
    IN /\ n - c >= k =>
            est_out[1] * Binomial(n, k)
              = est_out[2] * (Binomial(n, k) - Binomial(n - c, k))
       /\ n - c < k => est_out = <<1, 1>>
       /\ c = n => est_out = <<1, 1>>
       /\ c = 0 => est_out = <<0, 1>>

C6_Witness ==
  /\ est_in = <<5, 2, 2>>
  /\ est_out = <<7, 10>>

\* ------------------------------------------------------------------------
\* The translation target of a samples file and the rewriting of a sample
\* (lines 261-262 and 291-306)
\* ------------------------------------------------------------------------
\* the input paths of the path specification: <stem><sep>to<sep><token><ext>
PathStems == {<<"p", "y">>, <<"a", "_", "t", "o", "_", "x", "/", "p", "y">>}
PathSeps == {"-", "_", "."}
PathTos == {<<"t", "o">>, <<"T", "O">>}
PathTokens ==
  {<<"j", "s">>,
   <<"j", "a", "v", "a", "s", "c", "r", "i", "p", "t">>,
   <<"p", "y">>,
   <<"p", "y", "t", "h", "o", "n">>,
   <<"c", "+", "+">>,
   <<"c", "p", "p">>,
   <<"c", "p", "l", "u", "s", "p", "l", "u", "s">>,
   <<"g", "o">>,
   <<"j", "a", "v", "a">>,
   <<"r", "u", "s", "t">>,
   <<"g", "o", "l", "a", "n", "g">>,
   <<"j", "a", "v", "a", "s", "c", "r", "i", "p", "t", "x">>,
   <<"p", "y", "p", "y">>,
   <<"x", "c", "+", "+">>,
   <<"t", "s">>,
   <<"J", "S">>,
   <<"R", "u", "s", "t">>,
   <<"x">>}
PathExts == {<<".", "j", "s", "o", "n", "l">>, <<"2", "x">>}
InputFiles ==
  {x[1] \o <<x[2]>> \o x[3] \o <<x[4]>> \o x[5] \o x[6] :
     x \in PathStems \X PathSeps \X PathTos \X PathSeps \X PathTokens \X PathExts}

InitPath ==
  /\ input_file \in InputFiles
  /\ sample_task_id \in TaskIds
  /\ resolved = <<>>
  /\ IdleRun
  /\ IdleExec
  /\ IdleEst
  /\ IdleAsm
  /\ IdleLang

\* the target of the path, and the language key and task id of one sample;
\* raised: the exception of the LANGUAGE_NAME lookup (line 302), if any
ResolveTarget ==
  /\ input_file # <<>>
  /\ resolved = <<>>
  /\ LET tgt == extract_translation_target(input_file)
     IN resolved' =
          IF tgt # None /\ SafeLang(tgt) \notin DOMAIN LANGUAGE_NAME
            THEN << [tgt |-> tgt, translation_mode |-> TRUE, lang |-> SafeLang(tgt),
                     task_id |-> TaskId("", sample_task_id.idx),
                     raised |-> "KeyError"] >>
            ELSE << [tgt |-> tgt, translation_mode |-> tgt # None,
                     lang |-> SampleLangFor(tgt, sample_task_id),
                     task_id |-> SampleTaskIdFor(tgt, sample_task_id),
                     raised |-> ""] >>
  /\ UNCHANGED <<input_file, sample_task_id>>
  /\ UNCHANGED notPath

NextPath == ResolveTarget

SpecPath == InitPath /\ [][NextPath]_vars

\* C16: when the path carries a target, the sample runs under the language
\* key of that target, which is one of cpp, go, java, js, python, rust; its
\* task id becomes <LanguageName of the target>/<index of its own task id>,
\* whatever language its own task id names; and the LANGUAGE_NAME lookup
\* raises nothing.
C16_TranslationRewrite ==
  (resolved # <<>> /\ resolved[1].translation_mode) =>
    /\ resolved[1].raised = ""
    /\ resolved[1].tgt \in DOMAIN LANGUAGE_NAME
    /\ resolved[1].lang = resolved[1].tgt
    /\ resolved[1].task_id =
         TaskId(LANGUAGE_NAME[resolved[1].tgt], sample_task_id.idx)

C16_Witness ==
  /\ resolved # <<>>
  /\ Contains(input_file, <<"_", "T", "O", "-", "p", "y", "p", "y">>)
  /\ sample_task_id = TaskId("JavaScript", 1)
  /\ resolved[1].lang = "python"
  /\ resolved[1].task_id = TaskId("Python", 1)

\* ------------------------------------------------------------------------
\* str operations used by process_humaneval_test
\* ------------------------------------------------------------------------
WhiteSpace == {" ", "\t", "\n", "\r"}

MinOf(S) == CHOOSE i \in S : \A j \in S : i <= j
MaxOf(S) == CHOOSE i \in S : \A j \in S : j <= i

\* the places of the characters strip() keeps
Inked(s) == {i \in DOMAIN s : s[i] \notin WhiteSpace}

lstrip(s) == IF Inked(s) = {} THEN <<>> ELSE SubSeq(s, MinOf(Inked(s)), Len(s))

strip(s) ==
  IF Inked(s) = {} THEN <<>> ELSE SubSeq(s, MinOf(Inked(s)), MaxOf(Inked(s)))

\* s.split(sep) for a one-character separator
RECURSIVE split(_, _)
split(s, sep) ==
  LET K == {i \in DOMAIN s : s[i] = sep}
  IN IF K = {} THEN <<s>>
     ELSE <<SubSeq(s, 1, MinOf(K) - 1)>>
            \o split(SubSeq(s, MinOf(K) + 1, Len(s)), sep)

\* sep.join(parts)
RECURSIVE join(_, _)
join(sep, parts) ==
  IF parts = <<>> THEN <<>>
  ELSE IF Len(parts) = 1 THEN parts[1]
  ELSE parts[1] \o sep \o join(sep, Tail(parts))

\* s.replace(old, new, count); count = -1 replaces every occurrence
RECURSIVE replace(_, _, _, _)
replace(s, old, new, count) ==
  IF count = 0 THEN s
  ELSE IF old = <<>>
    THEN join(new, <<EmptyStr>> \o [i \in DOMAIN s |-> <<s[i]>>] \o <<EmptyStr>>)
  ELSE IF ~Contains(s, old) THEN s
  ELSE LET i == MinOf(Occurrences(old, s))
       IN SubSeq(s, 1, i - 1) \o new
            \o replace(SubSeq(s, i + Len(old), Len(s)), old, new, count - 1)

\* the concatenation of a sequence of texts
Concat(parts) == join(EmptyStr, parts)

\* IMPORT_HELPER (codegeex/benchmark/utils.py, lines 6-48)
IMPORT_HELPER ==
  [python |->
    <<<<"import math">>,
     <<"import re">>,
     <<"import sys">>,
     <<"import copy">>,
     <<"import datetime">>,
     <<"import itertools">>,
     <<"import collections">>,
     <<"import heapq">>,
     <<"import statistics">>,
     <<"import functools">>,
     <<"import hashlib">>,
     <<"import numpy">>,
     <<"import numpy as np">>,
     <<"import string">>,
     <<"from typing import *">>,
     <<"from collections import *">>>>,
   go |->
    <<<<"math">>,
     <<"strings">>,
     <<"fmt">>,
     <<"strconv">>,
     <<"time">>,
     <<"bytes">>,
     <<"regexp">>,
     <<"sort">>,
     <<"math", "/", "rand">>,
     <<"crypto", "/", "md5">>>>,
   cpp |->
    <<<<"#include", "<", "stdlib.h", ">">>,
     <<"#include", "<", "algorithm", ">">>,
     <<"#include", "<", "math.h", ">">>,
     <<"#include", "<", "stdio.h", ">">>,
     <<"#include", "<", "vector", ">">>,
     <<"#include", "<", "string", ">">>,
     <<"#include", "<", "c", "limits", ">">>,
     <<"#include", "<", "c", "string", ">">>,
     <<"#include", "<", "iostream", ">">>>>]

\* the literals of the Go branch (lines 148-166)
TestifyPath == <<"github.com/stretchr/testify/assert">>
TestifyImportLine ==
  <<"\n", " ", " ", " ", " ", "\"", "github.com/stretchr/testify/assert", "\"",
  "\n">>
ReflectQuoted == <<"\"", "reflect", "\"">>
ImportOpen == <<"import", " ", "(", "\n">>
ImportOpenReflect ==
  <<"import", " ", "(", "\n", " ", " ", " ", " ", "\"", "reflect", "\"", "\n">>
stub ==
  <<"\n", "type humanevalAssert struct {", "\n", " ", " ", " ", " ",
  "t *testing.T", "\n", "}", "\n", "\n",
  "func (a *humanevalAssert) Equal(expected, actual interface{}, msgAndArgs ...interface{}) bool {",
  "\n", " ", " ", " ", " ", "if !", "reflect", ".", "DeepEqual",
  "(expected, actual) {", "\n", " ", " ", " ", " ", " ", " ", " ", " ",
  "if len(msgAndArgs) > 0 {", "\n", " ", " ", " ", " ", " ", " ", " ", " ",
  " ", " ", " ", " ", "a.t.Errorf(\"assertion failed: %v\", msgAndArgs[0])",
  "\n", " ", " ", " ", " ", " ", " ", " ", " ", "} else {", "\n", " ", " ",
  " ", " ", " ", " ", " ", " ", " ", " ", " ", " ",
  "a.t.Errorf(\"assertion failed: expected %v got %v\", expected, actual)",
  "\n", " ", " ", " ", " ", " ", " ", " ", " ", "}", "\n", " ", " ", " ", " ",
  " ", " ", " ", " ", "return false", "\n", " ", " ", " ", " ", "}", "\n", " ",
  " ", " ", " ", "return true", "\n", "}", "\n", "\n",
  "type humanevalAssertPkg struct{}", "\n", "\n",
  "func (humanevalAssertPkg) New(t *testing.T) *humanevalAssert {", "\n", " ",
  " ", " ", " ", "t.Helper()", "\n", " ", " ", " ", " ",
  "return &humanevalAssert{t: t}", "\n", "}", "\n", "\n",
  "var assert = humanevalAssertPkg{}", "\n">>

\* the literal of the Rust branch (line 168)
main == <<"\n", "fn main(){", " ", "\n", " ", "}", " ", "\n">>

\* Go test scaffolds (the test_setup field of a problem)
ScaffoldTestify ==
  <<"package main", "\n", "\n", "import", " ", "(", "\n", " ", " ", " ", " ",
  "\"", "testing", "\"", "\n", " ", " ", " ", " ", "\"",
  "github.com/stretchr/testify/assert", "\"", "\n", ")", "\n">>
ScaffoldTestifyReflect ==
  <<"package main", "\n", "\n", "import", " ", "(", "\n", " ", " ", " ", " ",
  "\"", "reflect", "\"", "\n", " ", " ", " ", " ", "\"", "testing", "\"", "\n",
  " ", " ", " ", " ", "\"", "github.com/stretchr/testify/assert", "\"", "\n",
  ")", "\n">>
ScaffoldPlain ==
  <<"package main", "\n", "\n", "import", " ", "(", "\n", " ", " ", " ", " ",
  "\"", "testing", "\"", "\n", " ", " ", " ", " ", "\"", "math", "\"", "\n",
  ")", "\n">>
ScaffoldTestifyTabs ==
  <<"package main", "\n", "\n", "import", " ", "(", "\n", "\t", "\"", "testing",
  "\"", "\n", "\t", "\"", "github.com/stretchr/testify/assert", "\"", "\n",
  ")", "\n">>
ScaffoldTestifySingle ==
  <<"package main", "\n", "\n", "import", " ", "\"", "testing", "\"", "\n",
  "import", " ", "\"", "github.com/stretchr/testify/assert", "\"", "\n">>
GoScaffolds ==
  {ScaffoldTestify, ScaffoldTestifyReflect, ScaffoldPlain, ScaffoldTestifyTabs, ScaffoldTestifySingle}

\* Go generations
GoCodePlain ==
  <<" ", " ", " ", " ", "return ", "x", "\n", "}", "\n">>
GoCodeMath ==
  <<" ", " ", " ", " ", "return ", "math", ".", "Sqrt(x)", "\n", "}", "\n">>
GoCodeRand ==
  <<" ", " ", " ", " ", "x", " ", "=", " ", "rand", ".", "Intn(3)", "\n", " ",
  " ", " ", " ", "return ", "strings", ".", "ToUpper(s)", "\n", "}", "\n">>
GoCodeRuntime ==
  <<" ", " ", " ", " ", "r", "u", "n", "time", ".", "G", "C", "(", ")", "\n",
  " ", " ", " ", " ", "return ", "x", "\n", "}", "\n">>
GoCodes == {GoCodePlain, GoCodeMath, GoCodeRand, GoCodeRuntime}

\* the import field and the declaration of a Go problem
GoImport == <<"import", " ", "(", "\n", " ", " ", " ", " ", "\"", "math", "\"", "\n", ")">>
GoDeclaration ==
  <<"\n", "import", " ", "(", "\n", " ", " ", " ", " ", "\"", "math", "\"", "\n",
  ")", "\n", "\n", "func F(x float64) float64 {", "\n">>

\* the lines a C++ declaration is made of
CppLines ==
  {<<"#include", "<", "vector", ">", "\n">>,
   <<"#include", "<", "string", ">", "\n">>,
   <<"#include", "<", "c", "string", ">", "\n">>,
   <<"#include", " ", "<", "math.h", ">", "\n">>,
   <<"#include", "<", "math.h", ">", " ", "/", "/", " ", "m", "\n">>,
   <<"int f(){", "\n">>}

\* the other texts of the modelled problems and samples
Declaration == <<"def f(x):", "\n">>
SampleDeclaration == <<"\n", " ", " ", "def f(x):", "\n">>
Generation == <<" ", " ", " ", " ", "return x", "\n">>
HiddenTest == <<"check(f)">>
ExampleTest == <<"assert f(1) == 1">>

\* ------------------------------------------------------------------------
\* Assembler: process_humaneval_test
\* ------------------------------------------------------------------------
\* what a call gives: the exception it raises, if any, the assembled unit,
\* and the values of its locals test, code, declaration, test_set_up and
\* other_pkgs
Raise(exc) ==
  [raised |-> exc, test_string |-> EmptyStr, test |-> EmptyStr,
   code |-> EmptyStr, declaration |-> EmptyStr, test_set_up |-> EmptyStr,
   other_pkgs |-> <<>>]

Return(test_string, test, code, declaration, test_set_up, other_pkgs) ==
  [raised |-> "", test_string |-> test_string, test |-> test, code |-> code,
   declaration |-> declaration, test_set_up |-> test_set_up,
   other_pkgs |-> other_pkgs]

\* the condition of line 114, and the test body of lines 114-117
UseExample(problem, example_test) ==
  /\ example_test
  /\ "example_test" \in DOMAIN problem
  /\ problem.example_test # EmptyStr

SelectTest(problem, example_test) ==
  IF UseExample(problem, example_test) THEN problem.example_test ELSE problem.test

\* the condition of line 143, and the test body of lines 143-146
GoUseExample(problem, example_test) ==
  example_test /\ "example_test" \in DOMAIN problem

GoSelectTest(problem, example_test) ==
  IF GoUseExample(problem, example_test) THEN problem.example_test ELSE problem.test

\* Python: the line that ends the kept code (line 124)
IsCut_len(line) == Len(line) > 0 /\ line[1] # " " /\ line[1] # "\t"

IsCut(line) == Len(strip(line)) > 0 /\ line[1] # " " /\ line[1] # "\t"

\* the lines appended to code_ before the break (lines 122-126)
RECURSIVE KeepLines(_)
KeepLines(lines) ==
  IF lines = <<>> \/ IsCut(Head(lines)) THEN <<>>
  ELSE <<Head(lines)>> \o KeepLines(Tail(lines))

\* lines 122-127
PythonCode(code) == join(<<"\n">>, KeepLines(split(code, "\n")))

\* C++: the test of line 133
NotIn_lines(s, declaration) ==
  \A i \in DOMAIN split(declaration, "\n") : split(declaration, "\n")[i] # s

NotIn(s, declaration) == ~Contains(declaration, s)

\* the block of headers of lines 131-134
RECURSIVE CppSetUp(_, _)
CppSetUp(helpers, declaration) ==
  IF helpers = <<>> THEN EmptyStr
  ELSE (IF NotIn(Head(helpers), declaration)
          THEN Head(helpers) \o <<"\n">> ELSE EmptyStr)
       \o CppSetUp(Tail(helpers), declaration)

\* Go: the scaffold after lines 148-151
GoTestSetup(test_setup) ==
  IF Contains(test_setup, TestifyPath)
    THEN LET stripped == replace(test_setup, TestifyImportLine, <<"\n">>, -1)
         IN IF ~Contains(stripped, ReflectQuoted)
              THEN replace(stripped, ImportOpen, ImportOpenReflect, 1)
              ELSE stripped
    ELSE test_setup

\* the quoted helper packages of lines 152-157, in the order of the list
RECURSIVE OtherPkgs(_, _, _)
OtherPkgs(pkgs, test_setup, code) ==
  IF pkgs = <<>> THEN <<>>
  ELSE LET pkg == Head(pkgs)
           parts == split(pkg, "/")
           p == parts[Len(parts)]
       IN (IF ~Contains(test_setup, pkg) /\ Contains(code, p \o <<".">>)
             THEN << <<"\"">> \o pkg \o <<"\"">> >> ELSE <<>>)
          \o OtherPkgs(Tail(pkgs), test_setup, code)

\* line 159
ImportOtherPkgs(other_pkgs) ==
  ImportOpen
    \o join(<<" ", " ", " ", " ">>, [i \in DOMAIN other_pkgs |-> other_pkgs[i] \o <<"\n">>])
    \o <<")">>

\* lines 141-166
GoUnit(problem, declaration0, code, example_test) ==
  LET declaration == replace(declaration0, problem.import, EmptyStr, -1)
      test == GoSelectTest(problem, example_test)
      test_setup == GoTestSetup(problem.test_setup)
      other_pkgs == OtherPkgs(IMPORT_HELPER.go, test_setup, code)
      unit == IF other_pkgs # <<>>
                THEN Concat(<<test_setup, <<"\n">>, ImportOtherPkgs(other_pkgs),
                              <<"\n">>, declaration, code, <<"\n">>, test>>)
                ELSE Concat(<<test_setup, <<"\n">>, declaration, code, <<"\n">>, test>>)
  IN Return(IF Contains(problem.test_setup, TestifyPath)
              THEN unit \o <<"\n">> \o stub ELSE unit,
            test, code, declaration, test_setup, other_pkgs)

process_humaneval_test(sample, problems_, example_test) ==
  LET task_id == sample.task_id
      language == Lower(task_id.lang)
  IN IF task_id \notin DOMAIN problems_ THEN Raise("KeyError")
     ELSE
     LET problem == problems_[task_id]
         canonical_declaration ==
           IF "declaration" \in DOMAIN problem THEN problem.declaration ELSE EmptyStr
         declaration ==
           lstrip(IF "declaration" \in DOMAIN sample
                    THEN sample.declaration ELSE canonical_declaration)
     IN IF ~UseExample(problem, example_test) /\ "test" \notin DOMAIN problem
          THEN Raise("KeyError")
        ELSE IF "generation" \notin DOMAIN sample THEN Raise("KeyError")
        ELSE
        LET test == SelectTest(problem, example_test)
            code == sample.generation
        IN CASE language = "python" ->
                  LET kept == PythonCode(code)
                      test_setup == join(<<"\n">>, IMPORT_HELPER.python) \o <<"\n">>
                  IN Return(Concat(<<test_setup, declaration, kept, <<"\n">>,
                                     test, <<"\n">>>>),
                            test, kept, declaration, test_setup, <<>>)
             [] language = "cpp" ->
                  LET test_set_up == CppSetUp(IMPORT_HELPER.cpp, declaration)
                  IN Return(Concat(<<test_set_up, <<"\n">>, declaration, code,
                                     <<"\n">>, test>>),
                            test, code, declaration, test_set_up, <<>>)
             [] language = "java" ->
                  Return(Concat(<<declaration, code, <<"\n">>, test>>),
                         test, code, declaration, EmptyStr, <<>>)
             [] language \in {"js", "javascript"} ->
                  Return(Concat(<<declaration, code, <<"\n">>, test>>),
                         test, code, declaration, EmptyStr, <<>>)
             [] language = "go" ->
                  IF "import" \notin DOMAIN problem
                     \/ "test_setup" \notin DOMAIN problem
                     \/ (~GoUseExample(problem, example_test)
                           /\ "test" \notin DOMAIN problem)
                    THEN Raise("KeyError")
                    ELSE GoUnit(problem, declaration, code, example_test)
             [] language = "rust" ->
                  IF "declaration" \notin DOMAIN problem THEN Raise("KeyError")
                  ELSE Return(Concat(<<main, problem.declaration, code, test>>),
                              test, code, problem.declaration, EmptyStr, <<>>)
             [] OTHER -> Raise("UnboundLocalError")

\* ------------------------------------------------------------------------
\* The calls of process_humaneval_test
\* ------------------------------------------------------------------------
\* Python generations: every text of at most MaxCodeLen characters
PyChars == {" ", "\t", "\n", "\r", "x"}
PyCodes == UNION {[1..n -> PyChars] : n \in 0..MaxCodeLen}

\* C++ declarations: at most MaxDeclLines lines
CppDeclarations ==
  {Concat(ls) : ls \in UNION {[1..n -> CppLines] : n \in 0..MaxDeclLines}}

\* a problem record with or without the example_test field
ExampleFields == {"absent", "empty", "nonempty"}

WithExample(problem, e) ==
  IF e = "absent" THEN problem
  ELSE [f \in DOMAIN problem \cup {"example_test"} |->
          IF f = "example_test"
            THEN (IF e = "empty" THEN EmptyStr ELSE ExampleTest)
            ELSE problem[f]]

Problem == [declaration |-> Declaration, test |-> HiddenTest]

GoProblem(test_setup) ==
  [declaration |-> GoDeclaration, test |-> HiddenTest, import |-> GoImport,
   test_setup |-> test_setup]

\* one call: the sample, the problem set and the example_test flag
Call(sample, task_id, problem, e, example_test) ==
  [sample |-> sample, problems |-> [t \in {task_id} |-> WithExample(problem, e)],
   example_test |-> example_test]

PyCalls ==
  {Call([task_id |-> TaskId("Python", 0), generation |-> code],
        TaskId("Python", 0), Problem, e, b) :
     code \in PyCodes, e \in ExampleFields, b \in BOOLEAN}

CppCalls ==
  {Call([task_id |-> TaskId("CPP", 0), generation |-> Generation],
        TaskId("CPP", 0), [declaration |-> d, test |-> HiddenTest], e, b) :
     d \in CppDeclarations, e \in ExampleFields, b \in BOOLEAN}

GoCalls ==
  {Call([task_id |-> TaskId("Go", 0), generation |-> code],
        TaskId("Go", 0), GoProblem(s), e, b) :
     code \in GoCodes, s \in GoScaffolds, e \in ExampleFields, b \in BOOLEAN}

\* the languages whose unit is declaration + code + test, a language the
\* assembler does not know, and samples with a declaration of their own
OtherNames == {"Java", "JavaScript", "Rust", "Kotlin"}

OtherCalls ==
  {Call(sample, sample.task_id, Problem, e, b) :
     sample \in
       {[task_id |-> TaskId(l, 0), generation |-> Generation] : l \in OtherNames}
       \cup {[task_id |-> TaskId(l, 0), generation |-> Generation,
              declaration |-> SampleDeclaration] : l \in OtherNames},
     e \in ExampleFields, b \in BOOLEAN}

\* samples of a task the problem set does not hold, and problems that lack
\* a field the branch reads
FailingCalls ==
  {[sample |-> [task_id |-> TaskId(l, 1), generation |-> Generation],
    problems |-> [t \in {TaskId(l, 0)} |-> Problem],
    example_test |-> b] : l \in {"Python", "Go"}, b \in BOOLEAN}
  \cup {Call([task_id |-> TaskId(l, 0), generation |-> Generation],
             TaskId(l, 0), Problem, "absent", b) : l \in {"Go"}, b \in BOOLEAN}

Calls == PyCalls \cup CppCalls \cup GoCalls \cup OtherCalls \cup FailingCalls

InitAsm ==
  /\ asm_in \in Calls
  /\ asm_out = <<>>
  /\ IdleRun
  /\ IdleExec
  /\ IdleEst
  /\ IdlePath
  /\ IdleLang

\* one call of process_humaneval_test
Assemble ==
  /\ asm_out = <<>>
  /\ asm_out' = << process_humaneval_test(asm_in.sample, asm_in.problems,
                                           asm_in.example_test) >>
  /\ UNCHANGED asm_in
  /\ UNCHANGED notAsm

NextAsm == Assemble

SpecAsm == InitAsm /\ [][NextAsm]_vars

\* the call has returned a unit for a sample of the language
Assembled(language) ==
  /\ asm_out # <<>>
  /\ asm_out[1].raised = ""
  /\ Lower(asm_in.sample.task_id.lang) = language

AsmLanguages == {"python", "cpp", "java", "javascript", "go", "rust"}

ProblemIn == asm_in.problems[asm_in.sample.task_id]

DeclarationIn ==
  IF "declaration" \in DOMAIN asm_in.sample
    THEN asm_in.sample.declaration ELSE ProblemIn.declaration

\* C13: in every language the test body of the unit is the example test iff
\* the example_test flag is set and the problem has a non-empty example_test
\* field; otherwise (flag not set, field absent, field empty) it is the
\* hidden test.
C13_ExampleTestIffNonEmpty ==
  \A l \in AsmLanguages :
    Assembled(l) =>
      asm_out[1].test =
        IF /\ asm_in.example_test
           /\ "example_test" \in DOMAIN ProblemIn
           /\ ProblemIn.example_test # EmptyStr
          THEN ProblemIn.example_test
          ELSE ProblemIn.test

\* C18: the code kept in a Python unit is the longest prefix of the lines of
\* the generation that has no line which is both non-blank and starts with a
\* character other than space and tab; the unit is the import list, the
\* declaration, the kept code and the test body, in that order.
NonBlank(line) == \E i \in DOMAIN line : line[i] \notin WhiteSpace

Unindented(line) == NonBlank(line) /\ line[1] \notin {" ", "\t"}

C18_PythonAssembly ==
  Assembled("python") =>
    LET L == split(asm_in.sample.generation, "\n")
    IN /\ \E n \in 0..Len(L) :
            /\ asm_out[1].code = join(<<"\n">>, SubSeq(L, 1, n))
            /\ \A i \in 1..n : ~Unindented(L[i])
            /\ n < Len(L) => Unindented(L[n + 1])
       /\ asm_out[1].test_string =
            join(<<"\n">>, IMPORT_HELPER.python) \o <<"\n">>
              \o lstrip(DeclarationIn) \o asm_out[1].code \o <<"\n">>
              \o asm_out[1].test \o <<"\n">>

C18_Witness ==
  /\ Assembled("python")
  /\ asm_in.sample.generation = <<" ", "x", "\n", "x">>
  /\ asm_out[1].code = <<" ", "x">>

\* C19: a C++ unit starts with exactly those helper headers that do not
\* occur in the declaration, so that no helper header occurs both in that
\* block and in the declaration; then come the declaration, the code and the
\* test body.
Prepended(h) ==
  \E i \in DOMAIN split(asm_out[1].test_set_up, "\n") :
    split(asm_out[1].test_set_up, "\n")[i] = h

C19_CppAssembly ==
  Assembled("cpp") =>
    /\ \A k \in DOMAIN IMPORT_HELPER.cpp :
         LET h == IMPORT_HELPER.cpp[k]
         IN /\ Prepended(h) <=> ~Contains(lstrip(DeclarationIn), h)
            /\ ~(Contains(asm_out[1].test_set_up, h)
                   /\ Contains(lstrip(DeclarationIn), h))
    /\ asm_out[1].test_string =
         asm_out[1].test_set_up \o <<"\n">> \o lstrip(DeclarationIn)
           \o asm_in.sample.generation \o <<"\n">> \o asm_out[1].test

C19_Witness ==
  /\ Assembled("cpp")
  /\ Contains(DeclarationIn, <<"<", "math.h", ">", " ", "/">>)
  /\ Contains(DeclarationIn, <<"<", "c", "string", ">">>)
  /\ ~Prepended(<<"#include", "<", "math.h", ">">>)
  /\ ~Prepended(<<"#include", "<", "c", "string", ">">>)
  /\ Prepended(<<"#include", "<", "string", ">">>)

\* C20: a Go unit whose scaffold names github.com/stretchr/testify/assert
\* does not name that package, imports reflect and holds the assertion shim
\* exactly once; a unit whose scaffold does not name the package holds no
\* shim.
C20_GoSelfContained ==
  Assembled("go") =>
    IF Contains(ProblemIn.test_setup, TestifyPath)
      THEN /\ ~Contains(asm_out[1].test_string, TestifyPath)
           /\ Contains(asm_out[1].test_string, ReflectQuoted)
           /\ Cardinality(Occurrences(stub, asm_out[1].test_string)) = 1
      ELSE ~Contains(asm_out[1].test_string, stub)

\* C21: the extra import block of a Go unit lists a helper package only if
\* the generation refers to it by a package-qualified identifier (the last
\* segment of its path and a dot, at the start of an identifier) and the
\* scaffold does not import it; when no package is listed no import block is
\* added to the unit; and the declaration of the unit no longer holds the
\* import text of the problem.
IdentChars ==
  SeqToSet(LowerCase) \cup SeqToSet(UpperCase)
    \cup {"_", "0", "1", "2", "3", "4", "5", "6", "7", "8", "9"}

LastSegment(pkg) == split(pkg, "/")[Len(split(pkg, "/"))]

References(code, pkg) ==
  \E i \in Occurrences(LastSegment(pkg) \o <<".">>, code) :
    i = 1 \/ code[i - 1] \notin IdentChars

Imports(test_setup, pkg) == Contains(test_setup, <<"\"">> \o pkg \o <<"\"">>)

Listed(pkg) ==
  \E i \in DOMAIN asm_out[1].other_pkgs :
    asm_out[1].other_pkgs[i] = <<"\"">> \o pkg \o <<"\"">>

C21_GoExtraImports ==
  Assembled("go") =>
    /\ \A k \in DOMAIN IMPORT_HELPER.go :
         Listed(IMPORT_HELPER.go[k]) =>
           /\ References(asm_in.sample.generation, IMPORT_HELPER.go[k])
           /\ ~Imports(ProblemIn.test_setup, IMPORT_HELPER.go[k])
    /\ IF asm_out[1].other_pkgs = <<>>
         THEN Cardinality(Occurrences(ImportOpen, asm_out[1].test_string))
                = Cardinality(Occurrences(ImportOpen, asm_out[1].test_set_up))
         ELSE Contains(asm_out[1].test_string,
                       ImportOtherPkgs(asm_out[1].other_pkgs))
    /\ ~Contains(asm_out[1].declaration, ProblemIn.import)

\* ------------------------------------------------------------------------
\* The language key of the summary line: _lang_from_problem_file
\* (lines 189-211 and 367)
\* ------------------------------------------------------------------------
Digits == {"0", "1", "2", "3", "4", "5", "6", "7", "8", "9"}

\* the character class [a-z0-9\+]
InLangGroup(c) == InGroup(c) \/ c \in Digits

\* what may follow the group: \.jsonl(\.gz)?$, where $ also matches before a
\* newline that ends the text
LangEndings ==
  {<<".", "j", "s", "o", "n", "l">>,
   <<".", "j", "s", "o", "n", "l", ".", "g", "z">>,
   <<".", "j", "s", "o", "n", "l", "\n">>,
   <<".", "j", "s", "o", "n", "l", ".", "g", "z", "\n">>}

\* the group of a match of humaneval[_-]([a-z0-9\+]+)\.jsonl(\.gz)?$ that
\* starts at place i: an empty tuple if there is no match there, else the
\* tuple that holds the group
LangMatchAt(s, i) ==
  IF /\ i + 10 <= Len(s)
     /\ SubSeq(s, i, i + 8) = <<"h", "u", "m", "a", "n", "e", "v", "a", "l">>
     /\ s[i + 9] \in {"_", "-"}
     /\ InLangGroup(s[i + 10])
    THEN LET E == {e \in (i + 10)..Len(s) : \A j \in (i + 10)..e : InLangGroup(s[j])}
             e == MaxOf(E)
         IN IF SubSeq(s, e + 1, Len(s)) \in LangEndings
              THEN <<SubSeq(s, i + 10, e)>> ELSE <<>>
    ELSE <<>>

\* the dict of lines 200-211
lang_alias ==
  [w \in {"javascript", "js", "python", "py", "c++", "cplusplus", "cpp", "go", "java", "rust"} |->
     CASE w = "javascript" -> "js"
       [] w = "js" -> "js"
       [] w = "python" -> "python"
       [] w = "py" -> "python"
       [] w = "c++" -> "cpp"
       [] w = "cplusplus" -> "cpp"
       [] w = "cpp" -> "cpp"
       [] w = "go" -> "go"
       [] w = "java" -> "java"
       [] w = "rust" -> "rust"]

\* dict.get(raw, raw) of line 211, as text
lang_get(raw) ==
  IF \E w \in DOMAIN lang_alias : Spell(w) = raw
    THEN <<Spell(lang_alias[CHOOSE w \in DOMAIN lang_alias : Spell(w) = raw])>>
    ELSE <<raw>>

\* the result: an empty tuple for None, else the tuple that holds the text
lang_from_problem_file(problem_file_) ==
  LET s == lower(problem_file_)
      M == {i \in DOMAIN s : LangMatchAt(s, i) # <<>>}
  IN IF M = {} THEN <<>> ELSE lang_get(LangMatchAt(s, MinOf(M))[1])

\* the problem files: <dir>humaneval<sep><token><ending>
LangDirs == {<<>>, <<"d", "a", "t", "a", "/">>, <<"h", "u", "m", "a", "n", "e", "v", "a", "l", "_", "x", "/">>}
LangSeps == {"_", "-", "."}
LangTokens ==
  {<<"j", "s">>,
   <<"j", "a", "v", "a", "s", "c", "r", "i", "p", "t">>,
   <<"p", "y">>,
   <<"p", "y", "t", "h", "o", "n">>,
   <<"c", "+", "+">>,
   <<"c", "p", "p">>,
   <<"c", "p", "l", "u", "s", "p", "l", "u", "s">>,
   <<"g", "o">>,
   <<"j", "a", "v", "a">>,
   <<"r", "u", "s", "t">>,
   <<"g", "o", "l", "a", "n", "g">>,
   <<"k", "o", "t", "l", "i", "n">>,
   <<"x", "2">>,
   <<"J", "S">>,
   <<"R", "u", "s", "t">>,
   <<"g", "o", "_", "v", "2">>,
   <<>>}
LangExts == {<<".", "j", "s", "o", "n", "l">>, <<".", "j", "s", "o", "n", "l", ".", "g", "z">>, <<".", "j", "s", "o", "n">>, <<".", "j", "s", "o", "n", "l", ".", "b", "a", "k">>, <<".", "J", "S", "O", "N", "L", "\n">>}
ProblemPaths ==
  {x[1] \o <<"h", "u", "m", "a", "n", "e", "v", "a", "l">> \o <<x[2]>> \o x[3] \o x[4] :
     x \in LangDirs \X LangSeps \X LangTokens \X LangExts}

InitLang ==
  /\ problem_file \in ProblemPaths
  /\ lang_key = <<>>
  /\ IdleRun
  /\ IdleExec
  /\ IdleEst
  /\ IdlePath
  /\ IdleAsm

\* line 367: the first field of the summary line, and the value it comes from
InferLanguage ==
  /\ problem_file # <<>>
  /\ lang_key = <<>>
  /\ LET result == lang_from_problem_file(problem_file)
     IN lang_key' = << [result |-> result,
                        field |-> IF result = <<>> THEN EmptyStr ELSE result[1]] >>
  /\ UNCHANGED problem_file
  /\ UNCHANGED notLang

NextLang == InferLanguage

SpecLang == InitLang /\ [][NextLang]_vars

\* C22: for every problem file the language key of the summary line is one
\* of cpp, go, java, js, python, rust, or the field is empty because no key
\* was inferred (None); it is never another token.
C22_LangKeyNormalized ==
  lang_key # <<>> =>
    \/ lang_key[1].result = <<>> /\ lang_key[1].field = EmptyStr
    \/ \E k \in DOMAIN LANGUAGE_NAME :
         lang_key[1].result = <<Spell(k)>> /\ lang_key[1].field = Spell(k)

====
